---- MODULE Spec2Model ----
(***************************************************************************)
(* Model of text_analyzer (src/src/main.rs): a command-line program that   *)
(* parses its arguments, reads a text file, folds the filtered lowercase   *)
(* words into a frequency map, derives statistics and prints a report.     *)
(*                                                                         *)
(* A character is its Unicode scalar value (a natural number); a string is *)
(* a sequence of characters.  The character operators below are exact on   *)
(* the Latin-1 range U+0000..U+00FF, which holds every character the       *)
(* bounded inputs use.                                                     *)
(***************************************************************************)
EXTENDS Integers, Sequences, FiniteSets, TLC

\* ---------------------------------------------------------------- bounds
\* the longest argument list (program name included)
MaxArgs == 5
\* the longest file content, in characters
MaxTextLen == 4

\* characters a file may hold: ' ', 'A', 'a', 'b', U+00E9 (e acute, 2 bytes)
TextChars == {32, 65, 97, 98, 233}

\* "--min-length"
MinLengthFlag == <<45, 45, 109, 105, 110, 45, 108, 101, 110, 103, 116, 104>>
\* "--starts-with"
StartsWithFlag == <<45, 45, 115, 116, 97, 114, 116, 115, 45, 119, 105, 116, 104>>

\* values an argument may take: the two flags, "1", "", "Ab", U+00C9 (E acute)
ArgPool == {MinLengthFlag, StartsWithFlag, <<49>>, <<>>, <<65, 98>>, <<201>>}

ArgLists == UNION {[1..n -> ArgPool] : n \in 0..MaxArgs}
Texts == UNION {[1..n -> TextChars] : n \in 0..MaxTextLen}

\* ------------------------------------------------------------ characters
\* char::is_whitespace (White_Space)
IsWhitespace(c) == c \in (9..13) \cup {32, 133, 160}

\* char::is_alphabetic (Alphabetic)
IsAlphabetic(c) ==
    \/ c \in 65..90
    \/ c \in 97..122
    \/ c \in {170, 181, 186}
    \/ c \in 192..214
    \/ c \in 216..246
    \/ c \in 248..255

\* char::to_ascii_lowercase: only 'A'..'Z' change
ToAsciiLowercase(c) == IF c \in 65..90 THEN c + 32 ELSE c

\* char::to_lowercase (Unicode simple lowercase mapping)
LowerChar(c) ==
    IF c \in 65..90 \/ c \in 192..214 \/ c \in 216..222 THEN c + 32 ELSE c

\* str::to_lowercase
ToLowercase(w) == [i \in 1..Len(w) |-> LowerChar(w[i])]

\* the UTF-8 encoding of one character
Utf8(c) ==
    IF c < 128 THEN <<c>>
    ELSE IF c < 2048 THEN <<192 + (c \div 64), 128 + (c % 64)>>
    ELSE IF c < 65536
        THEN <<224 + (c \div 4096), 128 + ((c \div 64) % 64), 128 + (c % 64)>>
    ELSE <<240 + (c \div 262144), 128 + ((c \div 4096) % 64),
           128 + ((c \div 64) % 64), 128 + (c % 64)>>

\* the bytes of a String
RECURSIVE Bytes(_)
Bytes(w) == IF w = <<>> THEN <<>> ELSE Utf8(Head(w)) \o Bytes(Tail(w))

\* String::len: the length in bytes
StrLen(w) == Len(Bytes(w))

\* Ord for str: lexicographic on the bytes
RECURSIVE BytesLess(_, _)
BytesLess(a, b) ==
    IF b = <<>> THEN FALSE
    ELSE IF a = <<>> THEN TRUE
    ELSE IF Head(a) # Head(b) THEN Head(a) < Head(b)
    ELSE BytesLess(Tail(a), Tail(b))

StrLess(a, b) == BytesLess(Bytes(a), Bytes(b))

\* Display for an unsigned integer
RECURSIVE FormatNat(_)
FormatNat(n) ==
    IF n < 10 THEN <<48 + n>> ELSE FormatNat(n \div 10) \o <<48 + (n % 10)>>

\* -------------------------------------------------------------- CliError
NoError == [kind |-> "None", value |-> <<>>, reason |-> ""]
MissingFilePath == [kind |-> "MissingFilePath", value |-> <<>>, reason |-> ""]
InvalidMinLength(v, r) == [kind |-> "InvalidMinLength", value |-> v, reason |-> r]
InvalidStartsWith(v, r) == [kind |-> "InvalidStartsWith", value |-> v, reason |-> r]
FileNotFound(p) == [kind |-> "FileNotFound", value |-> p, reason |-> ""]
FileReadPermission(p) == [kind |-> "FileReadPermission", value |-> p, reason |-> ""]
FileReadError == [kind |-> "FileReadError", value |-> <<>>, reason |-> "io"]
EmptyFile == [kind |-> "EmptyFile", value |-> <<>>, reason |-> ""]

\* ---------------------------------------------------------------- Config
\* Option<char>: <<>> is None, <<c>> is Some(c)
DefaultConfig == [file_path |-> <<>>, min_length |-> 0, starts_with |-> <<>>]

Ok(c) == [ok |-> TRUE, config |-> c, err |-> NoError]
Err(e) == [ok |-> FALSE, config |-> DefaultConfig, err |-> e]

\* args[i], Rust's index from 0
Arg(a, i) == a[i + 1]

RECURSIVE DecValue(_)
DecValue(d) ==
    IF d = <<>> THEN 0 ELSE 10 * DecValue(SubSeq(d, 1, Len(d) - 1)) + (d[Len(d)] - 48)

\* str::parse::<usize>: an optional '+', then one or more ASCII digits
\* (the inputs are far below usize::MAX, so no overflow arises)
ParseUsize(s) ==
    LET digits == IF s # <<>> /\ s[1] = 43 THEN Tail(s) ELSE s
        good == digits # <<>> /\ \A k \in 1..Len(digits) : digits[k] \in 48..57
    IN  [ok |-> good, val |-> IF good THEN DecValue(digits) ELSE 0]

\* the while loop of Config::new, from index i
RECURSIVE ScanArgs(_, _, _)
ScanArgs(a, i, config) ==
    IF ~(i < Len(a)) THEN Ok(config)
    ELSE IF Arg(a, i) = MinLengthFlag THEN
        LET j == i + 1 IN
        IF ~(j < Len(a)) THEN Err(InvalidMinLength(<<>>, "Missing value"))
        ELSE LET p == ParseUsize(Arg(a, j)) IN
            IF ~p.ok THEN Err(InvalidMinLength(Arg(a, j), "Not a number"))
            ELSE ScanArgs(a, j, [config EXCEPT !.min_length = p.val])
    ELSE IF Arg(a, i) = StartsWithFlag THEN
        LET j == i + 1 IN
        IF ~(j < Len(a)) THEN Err(InvalidStartsWith(<<>>, "Missing value"))
        ELSE IF Arg(a, j) = <<>> THEN Err(InvalidStartsWith(Arg(a, j), "Not a char"))
        ELSE LET c == Arg(a, j)[1] IN
            IF ~IsAlphabetic(c)
                THEN Err(InvalidStartsWith(Arg(a, j), "Must be a letter"))
            ELSE ScanArgs(a, j, [config EXCEPT !.starts_with = <<ToAsciiLowercase(c)>>])
    ELSE ScanArgs(a, i + 1, config)

\* a scan that starts at the file path instead of after it
ConfigNewFromPath(a) ==
    IF Len(a) < 2 THEN Err(MissingFilePath)
    ELSE ScanArgs(a, 1, [DefaultConfig EXCEPT !.file_path = Arg(a, 1)])

\* Config::new
ConfigNew(a) ==
    IF Len(a) < 2 THEN Err(MissingFilePath)
    ELSE ScanArgs(a, 2, [DefaultConfig EXCEPT !.file_path = Arg(a, 1)])

\* --------------------------------------------------------------- filters
\* min_filter(min_len)(word)
MinFilter(min_len, word) == StrLen(word) > min_len

\* starts_filter(c)(word)
StartsFilter(c, word) ==
    IF c = <<>> THEN TRUE
    ELSE IF word = <<>> THEN FALSE
    ELSE ToAsciiLowercase(word[1]) = c[1]

\* combined_filter(word)
CombinedFilter(cfg, word) ==
    MinFilter(cfg.min_length, word) /\ StartsFilter(cfg.starts_with, word)

\* ------------------------------------------------- the lazy word iterator
RECURSIVE SkipWhitespace(_)
SkipWhitespace(s) ==
    IF s # <<>> /\ IsWhitespace(Head(s)) THEN SkipWhitespace(Tail(s)) ELSE s

RECURSIVE RunLen(_)
RunLen(s) == IF s = <<>> \/ IsWhitespace(Head(s)) THEN 0 ELSE 1 + RunLen(Tail(s))

NoWord == [some |-> FALSE, word |-> <<>>, rest |-> <<>>]

\* SplitWhitespace::next on the unread text s
NextToken(s) ==
    LET t == SkipWhitespace(s)
        n == RunLen(t)
    IN  IF t = <<>> THEN NoWord
        ELSE [some |-> TRUE, word |-> SubSeq(t, 1, n), rest |-> SubSeq(t, n + 1, Len(t))]

\* next() of split_whitespace().map(to_lowercase).filter(!is_empty).filter(combined_filter)
RECURSIVE NextWord(_, _)
NextWord(s, cfg) ==
    LET t == NextToken(s) IN
    IF ~t.some THEN NoWord
    ELSE LET w == ToLowercase(t.word) IN
        IF w # <<>> /\ CombinedFilter(cfg, w)
            THEN [some |-> TRUE, word |-> w, rest |-> t.rest]
        ELSE NextWord(t.rest, cfg)

\* ------------------------------------------------------------ aggregation
EmptyMap == [w \in {} |-> 0]

\* an entry that is set to 1 instead of incremented
EntrySetOne(f, word) ==
    [w \in DOMAIN f \cup {word} |-> IF w = word THEN 1 ELSE f[w]]

\* *freq.entry(word).or_insert(0) += 1
EntryIncrement(f, word) ==
    [w \in DOMAIN f \cup {word} |->
        IF w = word THEN (IF word \in DOMAIN f THEN f[word] ELSE 0) + 1 ELSE f[w]]

\* ------------------------------------------------------------------ stats
\* the orders in which HashMap::iter may visit the keys
RECURSIVE IterationOrders(_)
IterationOrders(S) ==
    IF S = {} THEN {<<>>}
    ELSE UNION {{<<x>> \o p : p \in IterationOrders(S \ {x})} : x \in S}

\* freq.values().sum(), visiting the keys in order
RECURSIVE SumValues(_, _)
SumValues(f, order) ==
    IF order = <<>> THEN 0 ELSE f[Head(order)] + SumValues(f, Tail(order))

\* the key compared on the count alone
KeyGreaterCountOnly(f, x, y) == f[x] > f[y]

\* the key compared without Reverse
KeyGreaterNoReverse(f, x, y) == f[x] > f[y] \/ (f[x] = f[y] /\ StrLess(y, x))

\* (count_x, Reverse(x)) > (count_y, Reverse(y))
KeyGreater(f, x, y) == f[x] > f[y] \/ (f[x] = f[y] /\ StrLess(x, y))

\* Iterator::max_by_key from a current best: a later element wins unless the
\* earlier one is strictly greater
RECURSIVE MaxFrom(_, _, _)
MaxFrom(f, best, order) ==
    IF order = <<>> THEN best
    ELSE MaxFrom(f, IF KeyGreater(f, best, Head(order)) THEN best ELSE Head(order),
                 Tail(order))

NoEntry == [some |-> FALSE, word |-> <<>>, count |-> 0]

\* freq.iter().max_by_key(|(word, count)| (count, Reverse(word)))
MaxByKey(f, order) ==
    IF order = <<>> THEN NoEntry
    ELSE LET w == MaxFrom(f, Head(order), Tail(order))
         IN  [some |-> TRUE, word |-> w, count |-> f[w]]

\* (sum as f64 / total as f64).round() as usize, for total > 0
RoundQuotient(sum, total) == (2 * sum + total) \div (2 * total)

\* the statistics of run, with the map visited in the given order
ComputeStats(f, sum, order) ==
    LET total == SumValues(f, order) IN
    [total_words |-> total,
     average_length |-> IF total > 0 THEN RoundQuotient(sum, total) ELSE 0,
     unique_words |-> Cardinality(DOMAIN f),
     most_common |-> MaxByKey(f, order)]

NoStats ==
    [total_words |-> 0, average_length |-> 0, unique_words |-> 0, most_common |-> NoEntry]

\* ----------------------------------------------------------------- output
Line(fmt, a) == [fmt |-> fmt, args |-> a]

\* the println! calls of run
ReportLines(cfg, st) ==
    <<Line("=== Text Analyzer Results ===", <<>>),
      Line("File: {}", <<cfg.file_path>>),
      Line("Filters Applied:", <<>>),
      Line("  Minimum length: {}", <<FormatNat(cfg.min_length)>>)>>
    \o (IF cfg.starts_with # <<>>
            THEN <<Line("  Starts with: {}", <<cfg.starts_with>>)>> ELSE <<>>)
    \o <<Line("\nStats:", <<>>),
         Line("  Total word count: {}", <<FormatNat(st.total_words)>>),
         Line("  Number of unique words: {}", <<FormatNat(st.unique_words)>>),
         Line("  Average word length: {} chars", <<FormatNat(st.average_length)>>),
         IF st.most_common.some
            THEN Line("  Most common word: \"{}\" with count {}",
                      <<st.most_common.word, FormatNat(st.most_common.count)>>)
            ELSE Line("  No words found.", <<>>)>>

\* From<CliError> for i32 with EmptyFile sharing the code of FileReadError
FromCliErrorShared(e) ==
    CASE e.kind = "MissingFilePath" ->
            [code |-> 1, line |-> Line("Error: Missing file path.", <<>>)]
      [] e.kind = "InvalidMinLength" ->
            [code |-> 2, line |-> Line("Error: Invalid --min-length '{}': {}", <<e.value, e.reason>>)]
      [] e.kind = "InvalidStartsWith" ->
            [code |-> 3, line |-> Line("Error: Invalid --starts-with '{}': {}", <<e.value, e.reason>>)]
      [] e.kind = "FileNotFound" ->
            [code |-> 4, line |-> Line("Error: File '{}' not found.", <<e.value>>)]
      [] e.kind = "FileReadPermission" ->
            [code |-> 5, line |-> Line("Error: Permission denied reading '{}'.", <<e.value>>)]
      [] e.kind = "FileReadError" ->
            [code |-> 6, line |-> Line("Error: Failed to read file: {}", <<e.reason>>)]
      [] e.kind = "EmptyFile" ->
            [code |-> 6, line |-> Line("Error: File is empty.", <<>>)]

\* From<CliError> for i32: the exit code and the line written to stderr
FromCliError(e) ==
    CASE e.kind = "MissingFilePath" ->
            [code |-> 1, line |-> Line("Error: Missing file path.", <<>>)]
      [] e.kind = "InvalidMinLength" ->
            [code |-> 2, line |-> Line("Error: Invalid --min-length '{}': {}", <<e.value, e.reason>>)]
      [] e.kind = "InvalidStartsWith" ->
            [code |-> 3, line |-> Line("Error: Invalid --starts-with '{}': {}", <<e.value, e.reason>>)]
      [] e.kind = "FileNotFound" ->
            [code |-> 4, line |-> Line("Error: File '{}' not found.", <<e.value>>)]
      [] e.kind = "FileReadPermission" ->
            [code |-> 5, line |-> Line("Error: Permission denied reading '{}'.", <<e.value>>)]
      [] e.kind = "FileReadError" ->
            [code |-> 6, line |-> Line("Error: Failed to read file: {}", <<e.reason>>)]
      [] e.kind = "EmptyFile" ->
            [code |-> 7, line |-> Line("Error: File is empty.", <<>>)]

\* ------------------------------------------------------------------ state
VARIABLES
    pc,          \* where the run is
    args,        \* env::args(), until Config::new consumes it
    config,      \* the Config of run
    err,         \* the CliError run returned, or NoError
    reads,       \* how many times the file was read
    text,        \* the file content
    rest,        \* the part of text the word iterator has not consumed
    freq,        \* the fold's frequency map
    sum_length,  \* the fold's sum of lengths
    stats,       \* total_words, average_length, unique_words, most_common
    stdout,      \* the lines printed
    stderr,      \* the lines printed to the error stream
    exit_code    \* the process exit code, -1 while running

vars == <<pc, args, config, err, reads, text, rest, freq, sum_length, stats,
          stdout, stderr, exit_code>>

Init ==
    /\ pc = "start"
    /\ args \in ArgLists
    /\ config = DefaultConfig
    /\ err = NoError
    /\ reads = 0
    /\ text = <<>>
    /\ rest = <<>>
    /\ freq = EmptyMap
    /\ sum_length = 0
    /\ stats = NoStats
    /\ stdout = <<>>
    /\ stderr = <<>>
    /\ exit_code = -1

\* let config = Config::new(args)?
Parse ==
    /\ pc = "start"
    /\ LET r == ConfigNew(args) IN
        /\ config' = r.config
        /\ err' = r.err
        /\ pc' = IF r.ok THEN "parsed" ELSE "failed"
    /\ args' = <<>>
    /\ UNCHANGED <<reads, text, rest, freq, sum_length, stats, stdout, stderr, exit_code>>

\* let text = fs::read_to_string(&config.file_path).map_err(..)?
ReadFile ==
    /\ pc = "parsed"
    /\ reads' = reads + 1
    /\ \/ /\ config.file_path # <<>>   \* no file has the empty path
          /\ \E t \in Texts : text' = t
          /\ pc' = "read"
          /\ err' = err
       \/ /\ \E e \in {FileNotFound(config.file_path),
                       FileReadPermission(config.file_path), FileReadError} : err' = e
          /\ pc' = "failed"
          /\ text' = text
    /\ UNCHANGED <<args, config, rest, freq, sum_length, stats, stdout, stderr, exit_code>>

\* the empty check, made only after the report's first line is printed
CheckEmptyAfterHeader ==
    /\ pc = "read"
    /\ stdout' = Append(stdout, Line("=== Text Analyzer Results ===", <<>>))
    /\ IF SkipWhitespace(text) = <<>>
        THEN /\ err' = EmptyFile
             /\ pc' = "failed"
             /\ UNCHANGED <<rest, freq, sum_length>>
        ELSE /\ err' = err
             /\ pc' = "folding"
             /\ rest' = text
             /\ freq' = EmptyMap
             /\ sum_length' = 0
    /\ UNCHANGED <<args, config, reads, text, stats, stderr, exit_code>>

\* if text.trim().is_empty() { return Err(EmptyFile) }, then the fold's start
CheckEmpty ==
    /\ pc = "read"
    /\ IF SkipWhitespace(text) = <<>>
        THEN /\ err' = EmptyFile
             /\ pc' = "failed"
             /\ UNCHANGED <<rest, freq, sum_length>>
        ELSE /\ err' = err
             /\ pc' = "folding"
             /\ rest' = text
             /\ freq' = EmptyMap
             /\ sum_length' = 0
    /\ UNCHANGED <<args, config, reads, text, stats, stdout, stderr, exit_code>>

\* one call of the fold closure, on the iterator's next word
FoldStep ==
    /\ pc = "folding"
    /\ LET n == NextWord(rest, config) IN
        /\ n.some
        /\ freq' = EntryIncrement(freq, n.word)
        /\ sum_length' = sum_length + StrLen(n.word)
        /\ rest' = n.rest
    /\ UNCHANGED <<pc, args, config, err, reads, text, stats, stdout, stderr, exit_code>>

\* the iterator is exhausted: total_words, average_length, unique_words, most_common
Stats ==
    /\ pc = "folding"
    /\ ~NextWord(rest, config).some
    /\ \E order \in IterationOrders(DOMAIN freq) :
        stats' = ComputeStats(freq, sum_length, order)
    /\ rest' = <<>>
    /\ pc' = "stats"
    /\ UNCHANGED <<args, config, err, reads, text, freq, sum_length, stdout, stderr, exit_code>>

\* the println! calls, then Ok(())
Report ==
    /\ pc = "stats"
    /\ stdout' = stdout \o ReportLines(config, stats)
    /\ pc' = "returned"
    /\ UNCHANGED <<args, config, err, reads, text, rest, freq, sum_length, stats,
                   stderr, exit_code>>

\* main: process::exit(err.into()) on Err, a normal return on Ok
Exit ==
    /\ pc \in {"failed", "returned"}
    /\ IF pc = "failed"
        THEN /\ exit_code' = FromCliError(err).code
             /\ stderr' = Append(stderr, FromCliError(err).line)
        ELSE /\ exit_code' = 0
             /\ stderr' = stderr
    /\ pc' = "exited"
    /\ UNCHANGED <<args, config, err, reads, text, rest, freq, sum_length, stats, stdout>>

Next == Parse \/ ReadFile \/ CheckEmpty \/ FoldStep \/ Stats \/ Report \/ Exit

Spec == Init /\ [][Next]_vars

\* ------------------------------------------------- vocabulary of the claims
\* the whitespace-separated tokens of t, as pairs <<first, last>> of positions
TokenSpans(t) ==
    {s \in (1..Len(t)) \X (1..Len(t)) :
        /\ s[1] <= s[2]
        /\ \A k \in s[1]..s[2] : ~IsWhitespace(t[k])
        /\ s[1] = 1 \/ IsWhitespace(t[s[1] - 1])
        /\ s[2] = Len(t) \/ IsWhitespace(t[s[2] + 1])}

\* the token at a span, lowercased
WordAt(t, s) == [k \in 1..(s[2] - s[1] + 1) |-> LowerChar(t[s[1] + k - 1])]

\* the spans whose word the program's filters keep
KeptSpans(t, cfg) == {s \in TokenSpans(t) : CombinedFilter(cfg, WordAt(t, s))}

RECURSIVE SetSum(_, _)
SetSum(g, S) ==
    IF S = {} THEN 0
    ELSE LET x == CHOOSE y \in S : TRUE IN g[x] + SetSum(g, S \ {x})

\* a is before b in the lexicographic order of their characters
LexLess(a, b) ==
    \E k \in 1..Len(b) :
        /\ k - 1 <= Len(a)
        /\ \A m \in 1..(k - 1) : a[m] = b[m]
        /\ k = Len(a) + 1 \/ (k <= Len(a) /\ a[k] < b[k])

\* the run has computed its statistics and has not failed
HasStats == pc \in {"stats", "returned"} \/ (pc = "exited" /\ err = NoError)

LastLine == stdout[Len(stdout)]

\* C1: once the statistics are computed, total_words is the sum of the values
\* of the frequency map and the number of tokens of the text that, lowercased,
\* pass the min-length and the starts-with filter (repeats counted); the
\* report prints that number.
TotalWordsIsFilteredCount ==
    HasStats =>
        /\ stats.total_words = SetSum(freq, DOMAIN freq)
        /\ stats.total_words = Cardinality(KeptSpans(text, config))
        /\ pc # "stats" =>
            \E i \in 1..Len(stdout) :
                stdout[i] = Line("  Total word count: {}", <<FormatNat(stats.total_words)>>)

\* a word counted twice
RepeatedWordCounted ==
    /\ pc = "returned"
    /\ stats.total_words = 2
    /\ stats.unique_words = 1

\* C2 (as amended): with a non-empty map the reported most-common word has the
\* maximum count and is the lexicographically smallest of the words with that
\* count; with an empty map none is reported.
MostCommonIsSmallestOfMax ==
    HasStats =>
        IF DOMAIN freq = {}
        THEN /\ ~stats.most_common.some
             /\ pc # "stats" => LastLine = Line("  No words found.", <<>>)
        ELSE LET mc == stats.most_common IN
             /\ mc.some
             /\ mc.word \in DOMAIN freq
             /\ mc.count = freq[mc.word]
             /\ \A w \in DOMAIN freq :
                    /\ freq[w] <= mc.count
                    /\ (freq[w] = mc.count /\ w # mc.word) => LexLess(mc.word, w)
             /\ pc # "stats" =>
                    LastLine = Line("  Most common word: \"{}\" with count {}",
                                    <<mc.word, FormatNat(mc.count)>>)

\* C2 (as claimed): ... is the lexicographically greatest of the words with
\* the maximum count.
MostCommonIsGreatestOfMax ==
    HasStats =>
        IF DOMAIN freq = {}
        THEN ~stats.most_common.some
        ELSE LET mc == stats.most_common IN
             /\ mc.some
             /\ mc.word \in DOMAIN freq
             /\ mc.count = freq[mc.word]
             /\ \A w \in DOMAIN freq :
                    /\ freq[w] <= mc.count
                    /\ (freq[w] = mc.count /\ w # mc.word) => LexLess(w, mc.word)

\* a report made with two words sharing the maximum count
TieReported ==
    /\ pc = "returned"
    /\ stats.most_common.some
    /\ \E w \in DOMAIN freq :
        w # stats.most_common.word /\ freq[w] = stats.most_common.count

\* C3: the min-length filter keeps a lowercased token if and only if its
\* length in characters is strictly greater than min_length.
MinFilterCountsCharacters ==
    pc = "folding" =>
        \A s \in TokenSpans(text) :
            MinFilter(config.min_length, WordAt(text, s))
                <=> Len(WordAt(text, s)) > config.min_length

\* C4: after a successful parse the stored starts_with is a lowercase letter,
\* and the prefix filter keeps a token if and only if its first character
\* equals the given letter ignoring case (the stored letter differs from the
\* given one at most in case).
StartsWithIgnoresCase ==
    (pc = "folding" /\ config.starts_with # <<>>) =>
        LET c == config.starts_with[1] IN
        /\ IsAlphabetic(c)
        /\ c = LowerChar(c)
        /\ \A s \in TokenSpans(text) :
            StartsFilter(config.starts_with, WordAt(text, s))
                <=> LowerChar(text[s[1]]) = LowerChar(c)

ConfigErrorKinds == {"MissingFilePath", "InvalidMinLength", "InvalidStartsWith"}
ReadErrorKinds == {"FileNotFound", "FileReadPermission", "FileReadError"}

\* one step of the run, as C5 describes it
StepInOrder ==
    /\ <<pc, pc'>> \in
        {<<"start", "parsed">>, <<"start", "failed">>, <<"parsed", "read">>,
         <<"parsed", "failed">>, <<"read", "folding">>, <<"read", "failed">>,
         <<"folding", "folding">>, <<"folding", "stats">>, <<"stats", "returned">>,
         <<"returned", "exited">>, <<"failed", "exited">>}
    /\ reads' = IF pc = "parsed" THEN reads + 1 ELSE reads
    /\ err'.kind \in ConfigErrorKinds => reads' = 0
    /\ err' # err => (err = NoError /\ pc' = "failed")
    /\ pc' = "failed" =>
        /\ err' # NoError
        /\ pc = "start" => err'.kind \in ConfigErrorKinds
        /\ pc = "parsed" => err'.kind \in ReadErrorKinds
        /\ pc = "read" => err' = EmptyFile
    /\ pc = "read" => (pc' = "failed" <=> \A k \in 1..Len(text) : IsWhitespace(text[k]))
    /\ stdout' # stdout => (pc = "stats" /\ err' = NoError)
    /\ err' # NoError => stdout' = <<>>
    /\ (pc' = "exited" /\ err' = EmptyFile) => exit_code' = 7

\* C5: every step follows the order parse, read, check non-empty, fold,
\* statistics, report, exit; the first failing step ends the run with its own
\* error; the file is read only by the read step, so never after a
\* configuration error; and a run that ends in an error (an empty or
\* whitespace-only file included, which exits with 7) prints no report line.
PipelineOrder == [][StepInOrder]_vars

\* a whitespace-only file ended the run with EmptyFile and nothing printed
WhitespaceOnlyFileExited ==
    /\ pc = "exited"
    /\ err = EmptyFile
    /\ text # <<>>
    /\ reads = 1
    /\ stdout = <<>>

ExpectedExitCode ==
    [None |-> 0, MissingFilePath |-> 1, InvalidMinLength |-> 2, InvalidStartsWith |-> 3,
     FileNotFound |-> 4, FileReadPermission |-> 5, FileReadError |-> 6, EmptyFile |-> 7]

\* C6: the exit code is a fixed injective function of the outcome: 0 on
\* success and 1..7 for the seven error kinds, no code shared by two kinds,
\* and a failed run writes exactly one line to the error stream.
ExitCodeIsInjective ==
    /\ pc # "exited" => (exit_code = -1 /\ stderr = <<>>)
    /\ pc = "exited" =>
        /\ exit_code = ExpectedExitCode[err.kind]
        /\ Len(stderr) = IF err = NoError THEN 0 ELSE 1
        /\ \A k \in DOMAIN ExpectedExitCode \ {"None"} :
            FromCliError([kind |-> k, value |-> <<>>, reason |-> ""]).code = exit_code
                => k = err.kind

\* a permission failure exited with its own code and one diagnostic line
PermissionDeniedExited ==
    /\ pc = "exited"
    /\ err.kind = "FileReadPermission"
    /\ exit_code = 5
    /\ Len(stderr) = 1

\* an optional '+' and then decimal digits only
IsNonNegativeInteger(s) ==
    \E d \in {s} \cup (IF s # <<>> /\ s[1] = 43 THEN {Tail(s)} ELSE {}) :
        d # <<>> /\ \A k \in 1..Len(d) : d[k] \in 48..57

\* why the flag at position p (from 1) of a is offending, "" if it is not
Offence(a, p) ==
    LET missing == p = Len(a) IN
    IF a[p] = MinLengthFlag THEN
        IF missing THEN "Missing value"
        ELSE IF ~IsNonNegativeInteger(a[p + 1]) THEN "Not a number" ELSE ""
    ELSE IF a[p] = StartsWithFlag THEN
        IF missing THEN "Missing value"
        ELSE IF a[p + 1] = <<>> THEN "Not a char"
        ELSE IF ~IsAlphabetic(a[p + 1][1]) THEN "Must be a letter" ELSE ""
    ELSE ""

Offending(a) == {p \in 3..Len(a) : Offence(a, p) # ""}

ParseStepMeetsContract ==
    pc = "start" =>
        IF Len(args) < 2 THEN pc' = "failed" /\ err' = MissingFilePath
        ELSE IF Offending(args) = {}
            THEN /\ pc' = "parsed"
                 /\ err' = NoError
                 /\ config'.file_path = args[2]
                 /\ LET M == {p \in 3..(Len(args) - 1) : args[p] = MinLengthFlag}
                        S == {p \in 3..(Len(args) - 1) : args[p] = StartsWithFlag}
                        last(P) == CHOOSE p \in P : \A q \in P : q <= p
                    IN  /\ config'.min_length =
                            IF M = {} THEN 0 ELSE ParseUsize(args[last(M) + 1]).val
                        /\ config'.starts_with =
                            IF S = {} THEN <<>>
                            ELSE <<ToAsciiLowercase(args[last(S) + 1][1])>>
        ELSE LET p == CHOOSE q \in Offending(args) : \A r \in Offending(args) : q <= r
             IN  /\ pc' = "failed"
                 /\ err'.kind = IF args[p] = MinLengthFlag THEN "InvalidMinLength"
                                ELSE "InvalidStartsWith"
                 /\ err'.reason = Offence(args, p)
                 /\ err'.value = IF p = Len(args) THEN <<>> ELSE args[p + 1]

\* C7: Config::new fails with MissingFilePath exactly when fewer than 2
\* arguments are given; otherwise it takes argument 1 as the file path, returns
\* the error of the first offending flag after it (with the listed reasons),
\* and succeeds when no flag is offending, skipping every other token.
ConfigNewContract == [][ParseStepMeetsContract]_vars

\* a --starts-with value that is not a letter was rejected
NonLetterRejected ==
    /\ pc = "failed"
    /\ err = InvalidStartsWith(<<49>>, "Must be a letter")

\* C8: average_length is 0 when total_words is 0 and otherwise the quotient of
\* the summed character lengths of the counted tokens by total_words, rounded
\* to the nearest integer, halves away from zero.
AverageOfCharacterLengths ==
    pc = "stats" =>
        LET K == KeptSpans(text, config)
            chars == SetSum([s \in K |-> Len(WordAt(text, s))], K)
            total == stats.total_words
            avg == stats.average_length
        IN  IF total = 0 THEN avg = 0
            ELSE /\ 2 * avg * total <= 2 * chars + total
                 /\ 2 * chars + total < 2 * (avg + 1) * total

\* C9: at every step of the fold and in the final map, every key is a
\* non-empty lowercase word longer than min_length characters whose first
\* character is starts_with when that is set, and every count is at least 1.
KeysSatisfyFilters ==
    pc \in {"folding", "stats", "returned"} =>
        \A w \in DOMAIN freq :
            /\ w # <<>>
            /\ w = ToLowercase(w)
            /\ Len(w) > config.min_length
            /\ config.starts_with # <<>> => w[1] = config.starts_with[1]
            /\ freq[w] >= 1

\* C10: the statistics and the report are a function of the text and the
\* configuration: the map and the length sum are determined by them, and the
\* statistics are the same for every order in which the map can be visited.
OutputDeterminedByInput ==
    HasStats =>
        LET K == KeptSpans(text, config) IN
        /\ DOMAIN freq = {WordAt(text, s) : s \in K}
        /\ \A w \in DOMAIN freq : freq[w] = Cardinality({s \in K : WordAt(text, s) = w})
        /\ sum_length = SetSum([s \in K |-> StrLen(WordAt(text, s))], K)
        /\ \A order \in IterationOrders(DOMAIN freq) :
            ComputeStats(freq, sum_length, order) = stats
        /\ pc # "stats" => stdout = ReportLines(config, stats)

\* a successful run whose map has two words with the same count
TwoOrdersPossible ==
    /\ pc = "exited"
    /\ exit_code = 0
    /\ Cardinality(DOMAIN freq) = 2
    /\ \A v, w \in DOMAIN freq : freq[v] = freq[w]

====
